---- MODULE Spec2Model ----
(***************************************************************************)
(* A model of main.py: the JavaDoc insertion tool.  Text is modelled as    *)
(* sequences of one-character strings, so that strip / startswith / count  *)
(* / split / join are computed the way Python computes them.               *)
(***************************************************************************)
EXTENDS Integers, Sequences, FiniteSets, TLC

VARIABLES pc, exists, disk, java_code_lines, method_positions, idx,
          method_code_snippet, javadoc, events, origin, lines_at_take, disk0,
          call

vars == <<pc, exists, disk, java_code_lines, method_positions, idx,
          method_code_snippet, javadoc, events, origin, lines_at_take, disk0,
          call>>

mainVars == <<pc, exists, disk, java_code_lines, method_positions, idx,
              method_code_snippet, javadoc, events, origin, lines_at_take, disk0>>

\* ---------------------------------------------------------------- bounds
\* Number of member chunks in the class body of the file main() runs on.
MaxChunks == 2
\* Length of the line buffers the pure functions are called with.
MaxLen == 3
\* Largest parameter count of a parsed method declaration.
MaxParams == 2
\* Number of declarations in the tree get_method_positions walks.
MaxNodes == 2

\* ---------------------------------------------------------------- text
NL == "\n"
\* Python's None, kept apart from every text (texts hold one-character strings).
None == <<"None">>

\* Python's str.strip() removes these from both ends.
IsSpace(c) == c \in {" ", "\t", NL}

RECURSIVE LStrip(_)
LStrip(s) == IF s # <<>> /\ IsSpace(Head(s)) THEN LStrip(Tail(s)) ELSE s

RECURSIVE RStrip(_)
RStrip(s) ==
    IF s # <<>> /\ IsSpace(s[Len(s)]) THEN RStrip(SubSeq(s, 1, Len(s) - 1)) ELSE s

Strip(s) == RStrip(LStrip(s))

StartsWith(s, p) == Len(s) >= Len(p) /\ SubSeq(s, 1, Len(p)) = p

Count(s, c) == Cardinality({k \in DOMAIN s : s[k] = c})

\* re.match(r'^(\s*)', line).group(1): the leading run of whitespace.
RECURSIVE LeadingWhitespace(_)
LeadingWhitespace(s) ==
    IF s # <<>> /\ IsSpace(Head(s))
    THEN <<Head(s)>> \o LeadingWhitespace(Tail(s))
    ELSE <<>>

\* str.split('\n'): always at least one piece; pieces may be empty.
RECURSIVE SplitAcc(_, _, _)
SplitAcc(s, sep, cur) ==
    IF s = <<>> THEN <<cur>>
    ELSE IF Head(s) = sep THEN <<cur>> \o SplitAcc(Tail(s), sep, <<>>)
    ELSE SplitAcc(Tail(s), sep, Append(cur, Head(s)))

Split(s, sep) == SplitAcc(s, sep, <<>>)

\* sep.join(lines)
RECURSIVE Join(_, _)
Join(lines, sep) ==
    IF lines = <<>> THEN <<>>
    ELSE IF Len(lines) = 1 THEN lines[1]
    ELSE lines[1] \o <<sep>> \o Join(Tail(lines), sep)

DocOpener == <<"/", "*", "*">>
LineCommentOpener == <<"/", "/">>
BlockCommentOpener == <<"/", "*">>
AnnotationMarker == <<"@">>

\* ---------------------------------------------------------------- has_javadoc
\* The backward scan of has_javadoc from 0-based index `index`; returns the
\* verdict together with the set of 0-based indices the loop subscripts.
RECURSIVE has_javadoc_loop(_, _, _)
has_javadoc_loop(lines, index, reads) ==
    IF index >= 0
    THEN LET line == Strip(lines[index + 1])
             seen == reads \cup {index}
         IN IF line = <<>> THEN has_javadoc_loop(lines, index - 1, seen)
            ELSE IF StartsWith(line, DocOpener) THEN [ret |-> TRUE, reads |-> seen]
            ELSE IF StartsWith(line, LineCommentOpener) \/ StartsWith(line, BlockCommentOpener)
                 THEN [ret |-> FALSE, reads |-> seen]
            ELSE [ret |-> FALSE, reads |-> seen]
    ELSE [ret |-> FALSE, reads |-> reads]

\* A scan that does not skip blank lines (the mutant of has_javadoc_scan).
has_javadoc_scan_noskip(lines, line_number) ==
    IF line_number - 2 >= 0
    THEN [ret |-> StartsWith(Strip(lines[line_number - 1]), DocOpener),
          reads |-> {line_number - 2}]
    ELSE [ret |-> FALSE, reads |-> {}]

has_javadoc_scan(lines, line_number) ==
    has_javadoc_loop(lines, line_number - 2, {})

has_javadoc(lines, line_number) == has_javadoc_scan(lines, line_number).ret

\* ---------------------------------------------------------------- insert_javadoc
\* The upward walk over annotation lines; insert_at is a 0-based index.
RECURSIVE insert_at_loop(_, _)
insert_at_loop(lines, insert_at) ==
    IF insert_at > 0
    THEN IF StartsWith(Strip(lines[insert_at]), AnnotationMarker)
         THEN insert_at_loop(lines, insert_at - 1)
         ELSE insert_at
    ELSE insert_at

insert_at_of(lines, line_number) == insert_at_loop(lines, line_number - 1)

\* [f"{indent}{line.strip()}" for line in javadoc.split('\n') if line.strip()]
RECURSIVE IndentedLines(_, _)
IndentedLines(pieces, indent) ==
    IF pieces = <<>> THEN <<>>
    ELSE IF Strip(Head(pieces)) # <<>>
         THEN <<indent \o Strip(Head(pieces))>> \o IndentedLines(Tail(pieces), indent)
         ELSE IndentedLines(Tail(pieces), indent)

javadoc_lines_of(lines, line_number, doc) ==
    IndentedLines(Split(doc, NL), LeadingWhitespace(lines[line_number]))

\* An insertion that also puts a blank separator line before the comment
\* (the mutant of insert_javadoc).
insert_javadoc_blank(lines, line_number, doc) ==
    LET at == insert_at_of(lines, line_number)
    IN SubSeq(lines, 1, at) \o <<<<>>>> \o javadoc_lines_of(lines, line_number, doc)
         \o SubSeq(lines, at + 1, Len(lines))

insert_javadoc(lines, line_number, doc) ==
    LET at == insert_at_of(lines, line_number)
    IN SubSeq(lines, 1, at) \o javadoc_lines_of(lines, line_number, doc)
         \o SubSeq(lines, at + 1, Len(lines))

\* ---------------------------------------------------------------- extract_full_method_code
\* The for loop of extract_full_method_code at 1-based line k, with the
\* lines accumulated so far, the running brace count and the started flag.
RECURSIVE extract_loop(_, _, _, _, _)
extract_loop(lines, k, method_lines, open_braces, started) ==
    IF k > Len(lines) THEN method_lines
    ELSE LET line == lines[k]
             acc == Append(method_lines, line)
             ob == open_braces + Count(line, "{") - Count(line, "}")
             st == started \/ Count(line, "{") > 0
         IN IF st /\ ob = 0 THEN acc
            ELSE extract_loop(lines, k + 1, acc, ob, st)

\* A loop that stops on a zero brace count without waiting for the first
\* opening brace (the mutant of extract_full_method_code).
extract_full_method_code_nostart(lines, start_line) ==
    Join(extract_loop(lines, start_line, <<>>, 0, TRUE), NL)

extract_full_method_code(lines, start_line) ==
    Join(extract_loop(lines, start_line, <<>>, 0, FALSE), NL)

\* ---------------------------------------------------------------- generate_javadoc
\* The clean-up of the reply: strip the whole reply, split it into lines,
\* strip each line, drop the empty ones, join with newlines.  (splitlines
\* and split('\n') agree here: the texts hold no other line terminator and
\* empty pieces are dropped.)
RECURSIVE StrippedNonEmpty(_)
StrippedNonEmpty(pieces) ==
    IF pieces = <<>> THEN <<>>
    ELSE IF Strip(Head(pieces)) # <<>>
         THEN <<Strip(Head(pieces))>> \o StrippedNonEmpty(Tail(pieces))
         ELSE StrippedNonEmpty(Tail(pieces))

generate_javadoc_clean(raw) == Join(StrippedNonEmpty(Split(Strip(raw), NL)), NL)

\* The replies of the remote model that the run is explored with.
RawResponses ==
    { <<"/", "*", "*", "x", "*", "/">>,
      <<NL, "/", "*", "*", NL, NL, " ", "*", "/", " ", NL>>,
      <<" ", NL>> }

\* Python truthiness of the value generate_javadoc returned.
Truthy(doc) == doc # None /\ doc # <<>>

\* ---------------------------------------------------------------- is_getter / is_setter
Int_t == <<"int">>
GET == <<"g", "e", "t">>
IS == <<"i", "s">>
SET == <<"s", "e", "t">>

\* A getter test that forgets the parameter count (the mutant of is_getter).
is_getter_anyarity(method) ==
    (StartsWith(method.name, GET) \/ StartsWith(method.name, IS))
    /\ method.return_type # None

is_getter(method) ==
    (StartsWith(method.name, GET) \/ StartsWith(method.name, IS))
    /\ method.parameters = 0
    /\ method.return_type # None

\* javalang gives a void method the return type None, so the test
\* str(return_type) == 'void' adds nothing to `is None`.
is_setter(method) ==
    StartsWith(method.name, SET)
    /\ method.parameters = 1
    /\ method.return_type = None

\* The walk of get_method_positions over the declarations of the tree.
RECURSIVE get_method_positions_of(_)
get_method_positions_of(nodes) ==
    IF nodes = <<>> THEN <<>>
    ELSE IF is_getter(Head(nodes)) \/ is_setter(Head(nodes))
         THEN get_method_positions_of(Tail(nodes))
         ELSE <<Head(nodes)>> \o get_method_positions_of(Tail(nodes))

\* ---------------------------------------------------------------- javalang.parse.parse
\* The parser is a library.  In the model's source texts the character m
\* stands for the head of a declaration `void run()`, g for `int getX()`;
\* the declaration's position is the line that holds it, also when
\* annotations precede it on that line.
RUN == <<"r", "u", "n">>
GETX == <<"g", "e", "t", "X">>

RECURSIVE NodesOfLine(_, _)
NodesOfLine(line, k) ==
    IF line = <<>> THEN <<>>
    ELSE (CASE Head(line) = "m" ->
                 <<[name |-> RUN, position |-> k, parameters |-> 0, return_type |-> None]>>
            [] Head(line) = "g" ->
                 <<[name |-> GETX, position |-> k, parameters |-> 0, return_type |-> Int_t]>>
            [] OTHER -> <<>>)
         \o NodesOfLine(Tail(line), k)

RECURSIVE NodesFrom(_, _)
NodesFrom(lines, k) ==
    IF k > Len(lines) THEN <<>>
    ELSE NodesOfLine(lines[k], k) \o NodesFrom(lines, k + 1)

ParseTree(lines) == NodesFrom(lines, 1)

\* The parser raises on a source whose braces do not balance.
Parses(lines) ==
    Count(Join(lines, NL), "{") = Count(Join(lines, NL), "}")

\* ---------------------------------------------------------------- sort
\* list.sort(key=line, reverse=True) is stable: records with equal keys
\* keep their order.
RECURSIVE InsertDesc(_, _)
InsertDesc(sorted, m) ==
    IF sorted = <<>> THEN <<m>>
    ELSE IF Head(sorted).position >= m.position
         THEN <<Head(sorted)>> \o InsertDesc(Tail(sorted), m)
         ELSE <<m>> \o sorted

RECURSIVE SortFrom(_, _)
SortFrom(ms, acc) ==
    IF ms = <<>> THEN acc ELSE SortFrom(Tail(ms), InsertDesc(acc, Head(ms)))

\* A sort that leaves the records in file order (the mutant of sort_descending).
sort_file_order(ms) == ms

sort_descending(ms) == SortFrom(ms, <<>>)

\* ---------------------------------------------------------------- source files
\* The members a class body is built from; every concatenation of them
\* between the class's opening and closing line is a Java source, except
\* that Unclosed leaves a brace open.
ClassOpen == <<"c", "{">>
ClassClose == <<"}">>
Chunks ==
    { << <<"m", "{", "}">> >>,
      << <<" ", "m", "{">>, <<" ", "}">> >>,
      << <<"@", "x">>, <<"m", "{", "}">> >>,
      << <<"@", "x", " ", "m", "{", "}">> >>,
      << <<"m", "{", "}", "m", "{", "}">> >>,
      << <<"g", "{", "}">> >>,
      << <<"/", "*", "*", "x", "*", "/">> >>,
      << <<"/", "*", "*">>, <<" ", "*", "/">> >>,
      << <<>> >>,
      << <<"/", "/", "x">> >>,
      << <<"m", "{">> >> }

RECURSIVE Bodies(_)
Bodies(n) ==
    IF n = 0 THEN { <<>> }
    ELSE Bodies(n - 1) \cup { b \o c : b \in Bodies(n - 1), c \in Chunks }

\* The file ends with a newline, so its last line is empty.
SourceFiles == { <<ClassOpen>> \o b \o <<ClassClose, <<>>>> : b \in Bodies(MaxChunks) }

\* ---------------------------------------------------------------- main
Idle == [fn |-> "idle"]

Event(e, k) == [e |-> e, k |-> k]

Ident(n) == [k \in 1..n |-> k]
Zeros(n) == [k \in 1..n |-> 0]

\* The method the loop of main is at.
method == method_positions[idx]

Init ==
    /\ pc = "start"
    /\ exists \in BOOLEAN
    /\ \E f \in SourceFiles : disk = IF exists THEN Join(f, NL) ELSE <<>>
    /\ disk0 = disk
    /\ java_code_lines = <<>>
    /\ method_positions = <<>>
    /\ idx = 0
    /\ method_code_snippet = <<>>
    /\ javadoc = None
    /\ events = <<>>
    /\ origin = <<>>
    /\ lines_at_take = <<>>
    /\ call = Idle

\* A not-found branch that falls through to the rest of main (the mutant of NotFound).
NotFound_fallthrough ==
    /\ pc = "start"
    /\ ~exists
    /\ pc' = "loop"
    /\ idx' = 1
    /\ events' = Append(events, Event("notfound", 0))
    /\ UNCHANGED <<exists, disk, java_code_lines, method_positions,
                   method_code_snippet, javadoc, origin, lines_at_take, disk0, call>>

\* os.path.isfile fails: report and return.
NotFound ==
    /\ pc = "start"
    /\ ~exists
    /\ pc' = "done"
    /\ events' = Append(events, Event("notfound", 0))
    /\ UNCHANGED <<exists, disk, java_code_lines, method_positions, idx,
                   method_code_snippet, javadoc, origin, lines_at_take, disk0, call>>

\* read_java_file and java_code.split('\n').
ReadFile ==
    /\ pc = "start"
    /\ exists
    /\ java_code_lines' = Split(disk, NL)
    /\ origin' = Ident(Len(Split(disk, NL)))
    /\ events' = Append(events, Event("read", 0))
    /\ pc' = "parse"
    /\ UNCHANGED <<exists, disk, method_positions, idx, method_code_snippet,
                   javadoc, lines_at_take, disk0, call>>

\* get_method_positions returns, and the records are sorted from the end.
ParseOk ==
    /\ pc = "parse"
    /\ Parses(java_code_lines)
    /\ method_positions' =
         sort_descending(get_method_positions_of(ParseTree(java_code_lines)))
    /\ idx' = 1
    /\ pc' = "loop"
    /\ UNCHANGED <<exists, disk, java_code_lines, method_code_snippet, javadoc,
                   events, origin, lines_at_take, disk0, call>>

\* javalang raises: nothing catches it.
ParseFail ==
    /\ pc = "parse"
    /\ ~Parses(java_code_lines)
    /\ pc' = "crashed"
    /\ UNCHANGED <<exists, disk, java_code_lines, method_positions, idx,
                   method_code_snippet, javadoc, events, origin, lines_at_take,
                   disk0, call>>

\* The head of the loop body: has_javadoc, and for an undocumented method
\* extract_full_method_code.
TakeUp ==
    /\ pc = "loop"
    /\ idx <= Len(method_positions)
    /\ events' = Append(events, Event("take", idx))
    /\ lines_at_take' = java_code_lines
    /\ IF has_javadoc(java_code_lines, method.position)
       THEN /\ idx' = idx + 1
            /\ pc' = "loop"
            /\ UNCHANGED method_code_snippet
       ELSE /\ method_code_snippet' =
                 extract_full_method_code(java_code_lines, method.position)
            /\ pc' = "prompt"
            /\ UNCHANGED idx
    /\ UNCHANGED <<exists, disk, java_code_lines, method_positions, javadoc,
                   origin, disk0, call>>

\* prompt_user_for_description: input() returns a description.
Prompt ==
    /\ pc = "prompt"
    /\ events' = Append(events, Event("prompt", idx))
    /\ pc' = "generate"
    /\ UNCHANGED <<exists, disk, java_code_lines, method_positions, idx,
                   method_code_snippet, javadoc, origin, lines_at_take, disk0, call>>

\* input() raises (end of input, interrupt): nothing catches it.
PromptAbort ==
    /\ pc = "prompt"
    /\ events' = Append(events, Event("prompt", idx))
    /\ pc' = "crashed"
    /\ UNCHANGED <<exists, disk, java_code_lines, method_positions, idx,
                   method_code_snippet, javadoc, origin, lines_at_take, disk0, call>>

\* generate_javadoc returns the cleaned reply.
GenerateOk ==
    /\ pc = "generate"
    /\ \E raw \in RawResponses : javadoc' = generate_javadoc_clean(raw)
    /\ events' = Append(events, Event(IF Truthy(javadoc') THEN "generate" ELSE "generate_empty", idx))
    /\ pc' = "branch"
    /\ UNCHANGED <<exists, disk, java_code_lines, method_positions, idx,
                   method_code_snippet, origin, lines_at_take, disk0, call>>

\* A failure handler that lets the exception out (the mutant of GenerateFail).
GenerateFail_raises ==
    /\ pc = "generate"
    /\ javadoc' = None
    /\ events' = Append(events, Event("generate_failed", idx))
    /\ pc' = "crashed"
    /\ UNCHANGED <<exists, disk, java_code_lines, method_positions, idx,
                   method_code_snippet, origin, lines_at_take, disk0, call>>

\* The remote call raises: generate_javadoc catches it and returns None.
GenerateFail ==
    /\ pc = "generate"
    /\ javadoc' = None
    /\ events' = Append(events, Event("generate_failed", idx))
    /\ pc' = "branch"
    /\ UNCHANGED <<exists, disk, java_code_lines, method_positions, idx,
                   method_code_snippet, origin, lines_at_take, disk0, call>>

\* `if javadoc:` holds: insert_javadoc, then on to the next method.
Insert ==
    /\ pc = "branch"
    /\ Truthy(javadoc)
    /\ java_code_lines' = insert_javadoc(java_code_lines, method.position, javadoc)
    /\ origin' =
         LET at == insert_at_of(java_code_lines, method.position)
             n == Len(javadoc_lines_of(java_code_lines, method.position, javadoc))
         IN SubSeq(origin, 1, at) \o Zeros(n) \o SubSeq(origin, at + 1, Len(origin))
    /\ events' = Append(events, Event("insert", idx))
    /\ idx' = idx + 1
    /\ pc' = "loop"
    /\ UNCHANGED <<exists, disk, method_positions, method_code_snippet, javadoc,
                   lines_at_take, disk0, call>>

\* `if javadoc:` fails (None or an empty text): report, then on to the next method.
Skip ==
    /\ pc = "branch"
    /\ ~Truthy(javadoc)
    /\ events' = Append(events, Event("skip", idx))
    /\ idx' = idx + 1
    /\ pc' = "loop"
    /\ UNCHANGED <<exists, disk, java_code_lines, method_positions,
                   method_code_snippet, javadoc, origin, lines_at_take, disk0, call>>

\* After the loop: join the buffer and write_java_file.
WriteFile ==
    /\ pc = "loop"
    /\ idx > Len(method_positions)
    /\ disk' = Join(java_code_lines, NL)
    /\ exists' = TRUE
    /\ events' = Append(events, Event("write", 0))
    /\ pc' = "done"
    /\ UNCHANGED <<java_code_lines, method_positions, idx, method_code_snippet,
                   javadoc, origin, lines_at_take, disk0, call>>

Next ==
    \/ NotFound
    \/ ReadFile
    \/ ParseOk
    \/ ParseFail
    \/ TakeUp
    \/ Prompt
    \/ PromptAbort
    \/ GenerateOk
    \/ GenerateFail
    \/ Insert
    \/ Skip
    \/ WriteFile

Spec == Init /\ [][Next]_vars

\* ---------------------------------------------------------------- the functions, called on their own
\* Line buffers of 1..n lines over a set of lines.
RECURSIVE Buffers(_, _)
Buffers(L, n) ==
    IF n = 0 THEN { <<>> }
    ELSE Buffers(L, n - 1) \cup { Append(b, l) : b \in Buffers(L, n - 1), l \in L }

ScanLines ==
    { <<>>, <<" ">>,
      <<"/", "*", "*">>, <<" ", "/", "*", "*", "x">>,
      <<"/", "/", "x">>, <<"/", "*", "x">>, <<" ", "*", "/">>,
      <<"@", "x">>, <<"x">> }

InsertLines ==
    { <<>>, <<"@", "x">>, <<" ", "@", "x">>, <<"m">>, <<" ", " ", "m">>,
      <<"x", "@">>, <<"/", "*", "*", "x", "*", "/">> }

BraceLines ==
    { <<>>, <<"x">>, <<"m", "{">>, <<"}">>, <<"m", "{", "}">>, <<"{">>,
      <<"}", "{">>, <<"{", "{">> }

\* Comment texts insert_javadoc is called with: what generate_javadoc
\* returns, and texts whose lines carry whitespace of their own.
Comments ==
    { <<"/", "*", "*", "x", "*", "/">>,
      <<"/", "*", "*", NL, "*", "/">>,
      <<"/", "*", "*", NL, " ", "*", " ", "x", NL, " ", "*", "/">>,
      <<"/", "*", "*", NL, NL, " ", " ", NL, "*", "/">>,
      <<"x">>,
      <<>> }

Names ==
    { <<"g", "e", "t", "X">>, <<"i", "s", "X">>, <<"s", "e", "t", "X">>,
      <<"r", "u", "n">>, <<"g", "e", "t">>, <<"x", "s", "e", "t">> }

\* What the parser reports of a declaration, its position apart.
Shapes == [name : Names, parameters : 0..MaxParams, return_type : {None, Int_t}]

\* The declarations of a tree in file order, the k-th on line k.
Declarations(shapes) ==
    [k \in DOMAIN shapes |->
       [name |-> shapes[k].name, position |-> k,
        parameters |-> shapes[k].parameters, return_type |-> shapes[k].return_type]]

FnInit ==
    /\ pc = "off"
    /\ exists = FALSE
    /\ disk = <<>>
    /\ disk0 = <<>>
    /\ java_code_lines = <<>>
    /\ method_positions = <<>>
    /\ idx = 0
    /\ method_code_snippet = <<>>
    /\ javadoc = None
    /\ events = <<>>
    /\ origin = <<>>
    /\ lines_at_take = <<>>
    /\ call = Idle

CallHasJavadoc ==
    /\ call = Idle
    /\ \E lines \in Buffers(ScanLines, MaxLen) \ { <<>> } :
         \E line_number \in 1..Len(lines) :
           call' = [fn |-> "has_javadoc", lines |-> lines, line_number |-> line_number,
                    scan |-> has_javadoc_scan(lines, line_number)]
    /\ UNCHANGED mainVars

CallInsertJavadoc ==
    /\ call = Idle
    /\ \E lines \in Buffers(InsertLines, MaxLen) \ { <<>> } :
         \E line_number \in 1..Len(lines) :
           \E doc \in Comments :
             call' = [fn |-> "insert_javadoc", lines |-> lines,
                      line_number |-> line_number, javadoc |-> doc,
                      ret |-> insert_javadoc(lines, line_number, doc)]
    /\ UNCHANGED mainVars

CallExtract ==
    /\ call = Idle
    /\ \E lines \in Buffers(BraceLines, MaxLen) \ { <<>> } :
         \E start_line \in 1..Len(lines) :
           call' = [fn |-> "extract_full_method_code", lines |-> lines,
                    start_line |-> start_line,
                    ret |-> extract_full_method_code(lines, start_line)]
    /\ UNCHANGED mainVars

CallGetMethodPositions ==
    /\ call = Idle
    /\ \E n \in 0..MaxNodes :
         \E shapes \in [1..n -> Shapes] :
           call' = [fn |-> "get_method_positions", nodes |-> Declarations(shapes),
                    ret |-> get_method_positions_of(Declarations(shapes))]
    /\ UNCHANGED mainVars

Return ==
    /\ call # Idle
    /\ call' = Idle
    /\ UNCHANGED mainVars

FnNext ==
    \/ CallHasJavadoc
    \/ CallInsertJavadoc
    \/ CallExtract
    \/ CallGetMethodPositions
    \/ Return

FnSpec == FnInit /\ [][FnNext]_vars

\* ================================================================ claims
Max(S) == CHOOSE x \in S : \A y \in S : y <= x
Min(S) == CHOOSE x \in S : \A y \in S : x <= y

\* A text after trimming: no whitespace at either end, read off the text itself.
Trimmed(s) ==
    LET inner == { k \in DOMAIN s : ~IsSpace(s[k]) }
    IN IF inner = {} THEN <<>> ELSE SubSeq(s, Min(inner), Max(inner))

BeginsWith(s, p) == Len(s) >= Len(p) /\ \A k \in DOMAIN p : s[k] = p[k]

\* ---------------------------------------------------------------- C4
\* The 1-based lines above line_number that are not empty after trimming.
C4_NonEmptyAbove(lines, line_number) ==
    { j \in 1..(line_number - 1) : Trimmed(lines[j]) # <<>> }

C6_Text(lines, S, E) == Join(SubSeq(lines, S, E), NL)

\* The lines E >= S where a '{' has been seen on S..E and the braces of
\* S..E balance.
C6_Stops(lines, S) ==
    { E \in S..Len(lines) :
        /\ Count(C6_Text(lines, S, E), "{") >= 1
        /\ Count(C6_Text(lines, S, E), "{") = Count(C6_Text(lines, S, E), "}") }

C7_AccessorShaped(m) ==
    \/ /\ BeginsWith(m.name, <<"g", "e", "t">>) \/ BeginsWith(m.name, <<"i", "s">>)
       /\ m.parameters = 0
       /\ m.return_type # None
    \/ /\ BeginsWith(m.name, <<"s", "e", "t">>)
       /\ m.parameters = 1
       /\ m.return_type = None

\* C7: discovery drops a declaration exactly when it is accessor-shaped
\* (get/is prefix, no parameter, non-void return; or set prefix, one
\* parameter, void return) and keeps every other declaration, in file order.
C7_DiscoveryFilter ==
    call.fn = "get_method_positions" =>
      call.ret = SelectSeq(call.nodes, LAMBDA m : ~C7_AccessorShaped(m))

\* A tree with a getter that is dropped and a void zero-argument getX, a
\* one-argument getX or a non-void setX that is kept.
C7_Witness ==
    /\ call.fn = "get_method_positions"
    /\ Len(call.nodes) = 2
    /\ Len(call.ret) = 1
    /\ C7_AccessorShaped(call.nodes[1])
    /\ BeginsWith(call.nodes[2].name, <<"g", "e", "t">>)
         \/ BeginsWith(call.nodes[2].name, <<"s", "e", "t">>)

\* ---------------------------------------------------------------- C3
C3_IsAnnotation(line) == BeginsWith(Trimmed(line), <<"@">>)

\* The 0-based insertion index: the least q such that every line strictly
\* between line q and declaration line L is an annotation line.
C3_Point(lines, L) ==
    Min({ q \in 0..(L - 1) : \A j \in (q + 1)..(L - 1) : C3_IsAnnotation(lines[j]) })

\* The leading run of whitespace of a line.
C3_Indent(line) ==
    LET n == Max({ k \in 0..Len(line) : \A j \in 1..k : IsSpace(line[j]) })
    IN SubSeq(line, 1, n)

C3_Pieces(doc) == Split(doc, NL)

C3_Splice(lines, at, C) == SubSeq(lines, 1, at) \o C \o SubSeq(lines, at + 1, Len(lines))

C10_EndsWith(s, p) ==
    Len(s) >= Len(p) /\ SubSeq(s, Len(s) - Len(p) + 1, Len(s)) = p

\* C10: after buffer' = insert_javadoc(buffer, L, comment), for a comment
\* that starts with the doc-comment opener and ends with the closer,
\* has_javadoc(buffer', L + number of inserted lines) is true.
C10_InsertThenPresent ==
    ( /\ call.fn = "insert_javadoc"
      /\ BeginsWith(call.javadoc, <<"/", "*", "*">>)
      /\ C10_EndsWith(call.javadoc, <<"*", "/">>) )
    => has_javadoc(call.ret, call.line_number + (Len(call.ret) - Len(call.lines)))

\* ---------------------------------------------------------------- C1
\* A method is in hand from the moment the loop takes it up until its
\* insertion or skip.
InHand ==
    \/ pc = "loop" /\ idx <= Len(method_positions)
    \/ pc \in {"prompt", "generate", "branch"}

\* C1: whenever a method is taken up with its parsed line number L, line L
\* of the current buffer is still that method's original declaration line:
\* no insertion made for an earlier-processed method has displaced it.
C1_LineNumbersStayValid ==
    InHand => origin[method.position] = method.position

\* ---------------------------------------------------------------- C2
\* Whether the block comment that closes on 1-based line j opens with the
\* doc-comment opener.
RECURSIVE C2_BlockIsDoc(_, _)
C2_BlockIsDoc(lines, j) ==
    IF j < 1 THEN FALSE
    ELSE IF BeginsWith(Trimmed(lines[j]), <<"/", "*">>)
         THEN BeginsWith(Trimmed(lines[j]), <<"/", "*", "*">>)
         ELSE C2_BlockIsDoc(lines, j - 1)

\* Whether a documentation comment stands above 1-based line j + 1: blank
\* lines and annotation lines are passed over, and the comment may be a
\* single line or a block that ends in a closer line.
RECURSIVE C2_DocAbove(_, _)
C2_DocAbove(lines, j) ==
    IF j < 1 THEN FALSE
    ELSE LET t == Trimmed(lines[j])
         IN IF t = <<>> \/ BeginsWith(t, <<"@">>) THEN C2_DocAbove(lines, j - 1)
            ELSE IF BeginsWith(t, <<"/", "*", "*">>) THEN TRUE
            ELSE IF C10_EndsWith(t, <<"*", "/">>) THEN C2_BlockIsDoc(lines, j)
            ELSE FALSE

C2_DocumentedInInput(m) == C2_DocAbove(Split(disk0, NL), m.position - 1)

\* The lines of the buffer that were not inserted, in order.
RECURSIVE C2_Originals(_, _)
C2_Originals(lines, org) ==
    IF lines = <<>> THEN <<>>
    ELSE (IF Head(org) = 0 THEN <<>> ELSE <<Head(lines)>>)
         \o C2_Originals(Tail(lines), Tail(org))

\* C2: over a run, a comment is inserted only for non-accessor methods that
\* had no documentation comment in the input; a method documented in the
\* input is never prompted for and gains no comment; and the output without
\* the inserted lines is the input, line for line.
C2_OnlyUndocumentedGainComment ==
    /\ \A p \in DOMAIN events :
         events[p].e \in {"prompt", "insert"} =>
           /\ ~C7_AccessorShaped(method_positions[events[p].k])
           /\ ~C2_DocumentedInInput(method_positions[events[p].k])
    /\ (pc = "done" /\ exists) =>
         /\ Len(origin) = Len(Split(disk, NL))
         /\ C2_Originals(Split(disk, NL), origin) = Split(disk0, NL)

\* ---------------------------------------------------------------- C5
C5_Last == events[Len(events)]

C5_Generated == {"generate", "generate_empty", "generate_failed"}

\* C5: when the generation call fails, main inserts nothing for that
\* method, the buffer is as it was when the method was taken up, the call
\* is not repeated, the loop goes on to the remaining methods (a later
\* successful generation is followed by its insertion) and the run ends
\* with the file written.
C5_FailureSkipsOneMethod ==
    /\ \A p \in DOMAIN events :
         events[p].e = "generate_failed" =>
           /\ java_code_lines = lines_at_take \/ p < Len(events) - 1
           /\ p < Len(events) => events[p + 1] = Event("skip", events[p].k)
           /\ p = Len(events) => pc = "branch" /\ javadoc = None
           /\ p + 1 = Len(events) => pc = "loop" /\ idx = events[p].k + 1
           /\ p + 1 < Len(events) =>
                \/ events[p + 2] = Event("take", events[p].k + 1)
                \/ events[p + 2] = Event("write", 0) /\ events[p].k = Len(method_positions)
           /\ \A q \in DOMAIN events :
                (q # p /\ events[q].e \in C5_Generated) => events[q].k # events[p].k
    /\ \A q \in DOMAIN events :
         (events[q].e = "generate" /\ q < Len(events)) =>
           events[q + 1] = Event("insert", events[q].k)
    /\ (pc = "done" /\ exists) =>
         /\ C5_Last = Event("write", 0)
         /\ disk = Join(java_code_lines, NL)
         /\ \A k \in DOMAIN method_positions : \E p \in DOMAIN events :
              events[p] = Event("take", k)

\* A finished run in which generation failed for one method and a later
\* method still got its comment.
C5_Witness ==
    /\ pc = "done"
    /\ \E p, q \in DOMAIN events :
         /\ p < q
         /\ events[p].e = "generate_failed"
         /\ events[q].e = "insert"
    /\ C5_Last = Event("write", 0)

\* ---------------------------------------------------------------- C8
\* Which event may directly follow which, nm being the number of methods.
C8_Follows(prev, cur, nm) ==
    CASE prev.e = "read" ->
           \/ cur = Event("take", 1) /\ nm >= 1
           \/ cur = Event("write", 0) /\ nm = 0
      [] prev.e = "take" ->
           \/ cur = Event("prompt", prev.k)
           \/ cur = Event("take", prev.k + 1) /\ prev.k < nm
           \/ cur = Event("write", 0) /\ prev.k = nm
      [] prev.e = "prompt" -> cur.e \in C5_Generated /\ cur.k = prev.k
      [] prev.e = "generate" -> cur = Event("insert", prev.k)
      [] prev.e \in {"generate_empty", "generate_failed"} -> cur = Event("skip", prev.k)
      [] prev.e \in {"insert", "skip"} ->
           \/ cur = Event("take", prev.k + 1) /\ prev.k < nm
           \/ cur = Event("write", 0) /\ prev.k = nm
      [] OTHER -> FALSE

\* C8: on an existing file the read is the first event and the only read;
\* methods are taken up one after another in descending line order, each
\* with prompt, then generate, then (on success) insert, finished before
\* the next is taken up; the write happens once, as the last event, after
\* the last method; and a run that stops early (parse failure, uncaught
\* error in the loop) has written nothing and left the file as it was.
C8_EventOrder ==
    /\ exists /\ events # <<>> => events[1] = Event("read", 0)
    /\ \A p \in DOMAIN events :
         p > 1 => C8_Follows(events[p - 1], events[p], Len(method_positions))
    /\ \A j, k \in DOMAIN method_positions :
         j < k => method_positions[j].position >= method_positions[k].position
    /\ (pc = "done" /\ exists) => C5_Last = Event("write", 0)
    /\ (\A p \in DOMAIN events : events[p].e # "write") => disk = disk0
    /\ pc = "crashed" =>
         /\ \A p \in DOMAIN events : events[p].e # "write"
         /\ disk = disk0

\* A finished run over methods on different lines with an insertion for the
\* first one taken up.
C8_Witness ==
    /\ pc = "done"
    /\ Len(method_positions) >= 2
    /\ method_positions[1].position > method_positions[2].position
    /\ \E p \in DOMAIN events : events[p] = Event("insert", 1)
    /\ \E p \in DOMAIN events : events[p] = Event("prompt", 2)

\* ---------------------------------------------------------------- C9
\* C9: when the path is not an existing file, main reports it and returns:
\* nothing is read, parsed, prompted for, generated or written, and no file
\* is created.
C9_NotFoundNoEffect ==
    ~exists =>
      /\ events \in { <<>>, <<Event("notfound", 0)>> }
      /\ pc \in {"start", "done"}
      /\ pc = "done" => events = <<Event("notfound", 0)>>
      /\ disk = disk0
      /\ java_code_lines = <<>>
      /\ method_positions = <<>>

\* The run on a missing file, returned.
C9_Witness ==
    /\ pc = "done"
    /\ ~exists
    /\ events = <<Event("notfound", 0)>>

====
